---- MODULE Spec2Model ----
(***************************************************************************)
(* pystrap: the file-system primitives (pystrap.io_operations and the      *)
(* older copies kept in pystrap.main), the project layout step and the     *)
(* configuration-writing step, as a state machine over a small working     *)
(* directory.                                                              *)
(***************************************************************************)
EXTENDS Integers, Sequences, FiniteSets, TLC

VARIABLES project_name, fs, last, runs

vars == <<project_name, fs, last, runs>>

(***************************************************************************)
(* Bounds and input sets.                                                  *)
(***************************************************************************)
\* Longest file content (in characters) drawn for an initial file or for the
\* contents argument of a direct write_contents_to_file call.
MaxLen == 1

\* Most layout / configuration calls made in succession in one behaviour.
MaxRuns == 2

Chars == {"x", "\n"}

ProjectNames == {"demo", "foo"}

RECURSIVE SeqsUpTo(_)
SeqsUpTo(n) ==
    IF n = 0 THEN {<<>>}
    ELSE LET shorter == SeqsUpTo(n - 1)
         IN  shorter \cup {Append(s, c) : s \in {t \in shorter : Len(t) = n - 1}, c \in Chars}

Contents == SeqsUpTo(MaxLen)

(***************************************************************************)
(* The working directory.  A path is the sequence of its components        *)
(* ("src/demo" is <<"src", "demo">>); fs maps every path of the universe   *)
(* to what is there.                                                       *)
(***************************************************************************)
Absent == [kind |-> "absent", data |-> <<>>]
Dir == [kind |-> "dir", data |-> <<>>]
File(c) == [kind |-> "file", data |-> c]

Parent(path) == SubSeq(path, 1, Len(path) - 1)

\* The directory a relative path of one component lives in is the working
\* directory itself, which always exists.
ParentIsDir(f, path) ==
    \/ Len(path) = 1
    \/ /\ Parent(path) \in DOMAIN f
       /\ f[Parent(path)].kind = "dir"

\* pathlib.Path.exists()
Exists(f, path) == f[path].kind # "absent"

\* A directory tree: whatever exists lives in a directory.
Consistent(f) == \A q \in DOMAIN f : Exists(f, q) => ParentIsDir(f, q)

\* A path argument as the caller built it: a str or a pathlib.Path.
StrArg(path) == [type |-> "str", path |-> path]
PathArg(path) == [type |-> "Path", path |-> path]

(***************************************************************************)
(* Results of a call: the file system it leaves, the value returned or the *)
(* exception that escapes, the number of warnings it logged and the calls  *)
(* of primitives it made, in the order it made them.                       *)
(***************************************************************************)
Return(f, w) == [fs |-> f, ret |-> "True", exc |-> "None", warnings |-> w, trace |-> <<>>]

Raise(f, e, w) == [fs |-> f, ret |-> "None", exc |-> e, warnings |-> w, trace |-> <<>>]

\* A call with nargs positional arguments of a function declared with params
\* parameters: Python raises TypeError before the body runs unless they match.
Bind(f, params, nargs, r) ==
    IF nargs # params THEN Raise(f, "TypeError", 0) ELSE r

(***************************************************************************)
(* The shell commands the primitives run.  subprocess.run is called        *)
(* without check=True, so a failing command is not noticed by the caller.  *)
(***************************************************************************)
\* touch path: creates an empty file when nothing is there and the parent is
\* a directory; leaves the content of whatever exists alone; fails (changing
\* nothing) when the parent is missing or is no directory.
Touch(f, path) ==
    IF Exists(f, path) THEN f
    ELSE IF ParentIsDir(f, path) THEN [f EXCEPT ![path] = File(<<>>)]
    ELSE f

\* mkdir -p path: creates every missing directory along the path, from the
\* top, and stops at the first component that exists and is no directory.
RECURSIVE MkdirFrom(_, _, _)
MkdirFrom(f, path, i) ==
    IF i > Len(path) THEN f
    ELSE LET prefix == SubSeq(path, 1, i)
         IN  IF f[prefix].kind = "file" THEN f
             ELSE MkdirFrom([f EXCEPT ![prefix] = Dir], path, i + 1)

MkdirP(f, path) == MkdirFrom(f, path, 1)

(***************************************************************************)
(* open() and readlines().                                                 *)
(***************************************************************************)
\* The exception open(path, "r") raises, or "None".
OpenForRead(f, path) ==
    IF ~ParentIsDir(f, path)
    THEN IF Parent(path) \in DOMAIN f /\ f[Parent(path)].kind = "file"
         THEN "NotADirectoryError" ELSE "FileNotFoundError"
    ELSE IF f[path].kind = "absent" THEN "FileNotFoundError"
    ELSE IF f[path].kind = "dir" THEN "IsADirectoryError"
    ELSE "None"

\* f.readlines(): the content cut after every newline.
RECURSIVE ReadLinesFrom(_, _, _)
ReadLinesFrom(data, i, line) ==
    IF i > Len(data) THEN (IF line = <<>> THEN <<>> ELSE <<line>>)
    ELSE IF data[i] = "\n" THEN <<Append(line, data[i])>> \o ReadLinesFrom(data, i + 1, <<>>)
    ELSE ReadLinesFrom(data, i + 1, Append(line, data[i]))

ReadLines(data) == ReadLinesFrom(data, 1, <<>>)

\* open(path, "w") followed by f.write(contents) on a file that could be read.
WriteFile(f, path, contents) == [f EXCEPT ![path] = File(contents)]

(***************************************************************************)
(* pystrap.system_core: the names the module defines.                      *)
(***************************************************************************)
system_core_names ==
    {"Author", "UI", "Logger", "StreamLogger", "FileLogger", "logger_factory"}

\* Evaluating pystrap.system_core.<name>: the name itself when the module
\* defines it, AttributeError otherwise.
system_core_attr(name) ==
    IF name \in system_core_names THEN name ELSE "AttributeError"

(***************************************************************************)
(* pystrap.io_operations.                                                  *)
(***************************************************************************)
io_create_folder_params == 1
io_create_file_params == 1
io_write_contents_to_file_params == 2

\* create_file without the exists() check.
io_create_file_unchecked(f, arg) == Return(Touch(f, arg.path), 0)

\* path_to_folder.exists(): the argument must be a pathlib.Path; a str has no
\* such method.
io_create_folder(f, arg) ==
    IF arg.type # "Path" THEN Raise(f, "AttributeError", 0)
    ELSE IF Exists(f, arg.path) THEN Raise(f, "FileExistsError", 0)
    ELSE Return(MkdirP(f, arg.path), 0)

io_create_file(f, arg) ==
    IF arg.type # "Path" THEN Raise(f, "AttributeError", 0)
    ELSE IF Exists(f, arg.path) THEN Raise(f, "FileExistsError", 0)
    ELSE Return(Touch(f, arg.path), 0)

_file_is_empty(f, path) == ReadLines(f[path].data) = <<>>

\* write_contents_to_file without the emptiness check.
io_write_contents_to_file_unguarded(f, arg, contents) ==
    IF OpenForRead(f, arg.path) # "None" THEN Raise(f, OpenForRead(f, arg.path), 0)
    ELSE Return(WriteFile(f, arg.path, contents), 0)

\* write_contents_to_file with the emptiness check inverted.
io_write_contents_to_file_inverted(f, arg, contents) ==
    IF OpenForRead(f, arg.path) # "None" THEN Raise(f, OpenForRead(f, arg.path), 0)
    ELSE IF _file_is_empty(f, arg.path)
    THEN Raise(f, system_core_attr("FileNotEmptyException"), 0)
    ELSE Return(WriteFile(f, arg.path, contents), 0)

io_write_contents_to_file(f, arg, contents) ==
    IF OpenForRead(f, arg.path) # "None" THEN Raise(f, OpenForRead(f, arg.path), 0)
    ELSE IF ~_file_is_empty(f, arg.path)
    THEN Raise(f, system_core_attr("FileNotEmptyException"), 0)
    ELSE Return(WriteFile(f, arg.path, contents), 0)

(***************************************************************************)
(* pystrap.main: the primitives with a logger parameter.                   *)
(***************************************************************************)
main_create_folder_params == 2
main_create_file_params == 2
main_write_contents_to_file_params == 3

main_create_folder(f, arg) == Return(MkdirP(f, arg.path), 0)

main_create_file(f, arg) == Return(Touch(f, arg.path), 0)

\* write_contents_to_file that opens the file for writing whether it could be
\* read or not.
main_write_contents_to_file_creating(f, arg, contents) ==
    IF f[arg.path].kind = "file" /\ ReadLines(f[arg.path].data) # <<>> THEN Return(f, 1)
    ELSE Return(WriteFile(f, arg.path, contents), 0)

main_write_contents_to_file(f, arg, contents) ==
    IF OpenForRead(f, arg.path) # "None" THEN Raise(f, OpenForRead(f, arg.path), 0)
    ELSE IF ReadLines(f[arg.path].data) # <<>> THEN Return(f, 1)
    ELSE Return(WriteFile(f, arg.path, contents), 0)

(***************************************************************************)
(* The paths of a project.  f"src/{project_name}" and the other literals   *)
(* of create_project_structure, cut at "/".                                *)
(***************************************************************************)
SrcDir == <<"src">>
PackageDir(p) == <<"src", p>>
PackageInit(p) == <<"src", p, "__init__.py">>
TestsDir == <<"tests">>
TestsInit == <<"tests", "__init__.py">>
Pyproject == <<"pyproject.toml">>
SetupPy == <<"setup.py">>

\* The directory a direct call of a primitive works in: one top-level file and
\* one nested directory with a file in it.
PathOpsUniverse(p) == {Pyproject, SrcDir, PackageDir(p), PackageInit(p)}

AnyEntry == {Absent, Dir} \cup {File(c) : c \in Contents}

(***************************************************************************)
(* create_project_structure, of pystrap.config_writers and of              *)
(* pystrap.main.  Both build the same three lists and walk them in order;  *)
(* the first exception that escapes a call ends the walk.                  *)
(***************************************************************************)
\* The tests directory alone.
project_folders_tests_only(p) == <<TestsDir>>

project_folders(p) == <<PackageDir(p), TestsDir>>

\* setup.py whether the project is distributable or not.
toplevel_file_names_with_setup(distributable) == <<Pyproject, SetupPy>>

toplevel_file_names(distributable) ==
    <<Pyproject>> \o (IF distributable THEN <<SetupPy>> ELSE <<>>)

\* The marker of the package before the marker of the tests.
init_files_package_first(p) == <<PackageInit(p), TestsInit>>

init_files(p) == <<TestsInit, PackageInit(p)>>

\* Nothing has run yet.
Start(f) == [fs |-> f, ret |-> "None", exc |-> "None", warnings |-> 0, trace |-> <<>>]

\* The outcome s of a step that follows the steps summed up in r.
After(r, s) ==
    [s EXCEPT !.warnings = r.warnings + s.warnings, !.trace = r.trace \o s.trace]

\* The outcome r of one call op(path) made in the directory f, with the call
\* on record: whether the parent of path was a directory when it was made,
\* and the exception it raised.
Attempt(f, op, path, r) ==
    [r EXCEPT !.trace = <<[op |-> op, path |-> path, parent |-> ParentIsDir(f, path),
                           exc |-> r.exc]>>]

\* for folder_name in project_folders:
\*     pystrap.io_operations.create_folder(folder_name, logger)
RECURSIVE cw_create_folders(_, _)
cw_create_folders(r, names) ==
    IF r.exc # "None" \/ names = <<>> THEN r
    ELSE cw_create_folders(
             After(r, Attempt(r.fs, "create_folder", Head(names),
                              Bind(r.fs, io_create_folder_params, 2,
                                   io_create_folder(r.fs, StrArg(Head(names)))))),
             Tail(names))

\* for file_name in ...: pystrap.io_operations.create_file(file_name, logger)
RECURSIVE cw_create_files(_, _)
cw_create_files(r, names) ==
    IF r.exc # "None" \/ names = <<>> THEN r
    ELSE cw_create_files(
             After(r, Attempt(r.fs, "create_file", Head(names),
                              Bind(r.fs, io_create_file_params, 2,
                                   io_create_file(r.fs, StrArg(Head(names)))))),
             Tail(names))

cw_create_project_structure(f, p, distributable) ==
    LET folders == cw_create_folders(Start(f), project_folders(p))
        files == cw_create_files(folders, toplevel_file_names(distributable))
        inits == cw_create_files(files, init_files(p))
    IN  IF inits.exc # "None" THEN inits
        ELSE After(inits, Return(inits.fs, 0))

\* for folder_name in project_folders: create_folder(folder_name, logger)
RECURSIVE main_create_folders(_, _)
main_create_folders(r, names) ==
    IF r.exc # "None" \/ names = <<>> THEN r
    ELSE main_create_folders(
             After(r, Attempt(r.fs, "create_folder", Head(names),
                              Bind(r.fs, main_create_folder_params, 2,
                                   main_create_folder(r.fs, StrArg(Head(names)))))),
             Tail(names))

\* for file_name in ...: create_file(file_name, logger)
RECURSIVE main_create_files(_, _)
main_create_files(r, names) ==
    IF r.exc # "None" \/ names = <<>> THEN r
    ELSE main_create_files(
             After(r, Attempt(r.fs, "create_file", Head(names),
                              Bind(r.fs, main_create_file_params, 2,
                                   main_create_file(r.fs, StrArg(Head(names)))))),
             Tail(names))

main_create_project_structure(f, p, distributable) ==
    LET folders == main_create_folders(Start(f), project_folders(p))
        files == main_create_files(folders, toplevel_file_names(distributable))
        inits == main_create_files(files, init_files(p))
    IN  IF inits.exc # "None" THEN inits
        ELSE After(inits, Return(inits.fs, 0))

(***************************************************************************)
(* Python values handed to the configuration functions: None, a str, a     *)
(* list, a dict (its items in insertion order) and an Author.              *)
(***************************************************************************)
PyNone == [t |-> "None"]
Str(s) == [t |-> "str", v |-> s]
List(items) == [t |-> "list", v |-> items]
Dict(items) == [t |-> "dict", v |-> items]
AuthorOf(name, email) == [t |-> "Author", name |-> name, email |-> email]

\* bool(v): None and the empty str are false, every object is true.
Truthy(v) ==
    CASE v.t = "None" -> FALSE
      [] v.t = "str" -> v.v # ""
      [] OTHER -> TRUE

\* get_project_metadata with the defaults of the terminal interface for a
\* missing author.
get_project_metadata_john_doe(p, description, author) ==
    LET author_name == IF Truthy(author) THEN author.name ELSE Str("John Doe")
        author_email == IF Truthy(author) THEN author.email ELSE Str("john.doe@example.com")
        project_description == IF Truthy(description) THEN description ELSE Str("")
        authors == Dict(<< <<"name", author_name>>, <<"email", author_email>> >>)
        project == Dict(<< <<"name", Str(p)>>,
                           <<"description", project_description>>,
                           <<"version", Str("0.0.1")>>,
                           <<"authors", List(<<authors>>)>>,
                           <<"maintainers", List(<<authors>>)>>,
                           <<"requires-python", Str(">=3.10")>> >>)
    IN  Dict(<< <<"project", project>> >>)

\* get_project_metadata with no maintainers.
get_project_metadata_no_maintainers(p, description, author) ==
    LET author_name == IF Truthy(author) THEN author.name ELSE Str("")
        author_email == IF Truthy(author) THEN author.email ELSE Str("")
        project_description == IF Truthy(description) THEN description ELSE Str("")
        authors == Dict(<< <<"name", author_name>>, <<"email", author_email>> >>)
        project == Dict(<< <<"name", Str(p)>>,
                           <<"description", project_description>>,
                           <<"version", Str("0.0.1")>>,
                           <<"authors", List(<<authors>>)>>,
                           <<"maintainers", List(<<>>)>>,
                           <<"requires-python", Str(">=3.10")>> >>)
    IN  Dict(<< <<"project", project>> >>)

(***************************************************************************)
(* get_project_metadata (the same text in pystrap.config_writers and in    *)
(* pystrap.main).                                                          *)
(***************************************************************************)
get_project_metadata(p, description, author) ==
    LET author_name == IF Truthy(author) THEN author.name ELSE Str("")
        author_email == IF Truthy(author) THEN author.email ELSE Str("")
        project_description == IF Truthy(description) THEN description ELSE Str("")
        authors == Dict(<< <<"name", author_name>>, <<"email", author_email>> >>)
        project == Dict(<< <<"name", Str(p)>>,
                           <<"description", project_description>>,
                           <<"version", Str("0.0.1")>>,
                           <<"authors", List(<<authors>>)>>,
                           <<"maintainers", List(<<authors>>)>>,
                           <<"requires-python", Str(">=3.10")>> >>)
    IN  Dict(<< <<"project", project>> >>)

\* get_build_system_config (the same text in pystrap.config_writers and in
\* pystrap.main).
get_build_system_config ==
    Dict(<< <<"[build-system]",
              Dict(<< <<"requires", List(<<Str("setuptools>=42"), Str("wheel")>>)>>,
                      <<"build-backend", Str("setuptools.build_meta")>> >>)>> >>)

(***************************************************************************)
(* tomli_w.dumps: the document as text, a sequence of pieces of which "\n" *)
(* is the line end.  Strings are written in double quotes, a list one item *)
(* a line with a trailing comma, a dict inside a list as an inline table   *)
(* (the tables here are short enough to fit a line), a dict under a key as *)
(* a [table].  A value that is no TOML type (None) is a TypeError.         *)
(***************************************************************************)
RECURSIVE Serializable(_)
Serializable(v) ==
    CASE v.t = "str" -> TRUE
      [] v.t = "list" -> \A i \in 1..Len(v.v) : Serializable(v.v[i])
      [] v.t = "dict" -> \A i \in 1..Len(v.v) : Serializable(v.v[i][2])
      [] OTHER -> FALSE

\* Keys made of letters, digits, "-" and "_" only are written bare.
BareKeys ==
    {"project", "name", "description", "version", "authors", "maintainers",
     "requires-python", "email", "build-system", "requires", "build-backend"}

format_key_part(k) == IF k \in BareKeys THEN <<k>> ELSE <<"\"", k, "\"">>

RECURSIVE format_literal(_)
RECURSIVE format_list_items(_)
RECURSIVE format_inline_items(_)

format_literal(v) ==
    CASE v.t = "str" -> <<"\"", v.v, "\"">>
      [] v.t = "list" ->
            IF v.v = <<>> THEN <<"[]">>
            ELSE <<"[", "\n">> \o format_list_items(v.v) \o <<"]">>
      [] OTHER ->
            IF v.v = <<>> THEN <<"{}">>
            ELSE <<"{ ">> \o format_inline_items(v.v) \o <<" }">>

format_list_items(items) ==
    IF items = <<>> THEN <<>>
    ELSE <<"    ">> \o format_literal(Head(items)) \o <<",", "\n">>
            \o format_list_items(Tail(items))

format_inline_items(items) ==
    IF items = <<>> THEN <<>>
    ELSE format_key_part(Head(items)[1]) \o <<" = ">> \o format_literal(Head(items)[2])
            \o (IF Tail(items) = <<>> THEN <<>> ELSE <<", ">>)
            \o format_inline_items(Tail(items))

RECURSIVE format_literal_lines(_)
format_literal_lines(items) ==
    IF items = <<>> THEN <<>>
    ELSE format_key_part(Head(items)[1]) \o <<" = ">> \o format_literal(Head(items)[2])
            \o <<"\n">> \o format_literal_lines(Tail(items))

RECURSIVE gen_table_chunks(_, _)
RECURSIVE gen_sub_tables(_, _, _)

\* The literals of a table first, under its [name] header, then its tables.
\* The name is the pieces of the dotted key, <<>> for the document itself.
gen_table_chunks(table, name) ==
    LET literals == SelectSeq(table, LAMBDA kv : kv[2].t # "dict")
        tables == SelectSeq(table, LAMBDA kv : kv[2].t = "dict")
        header == name # <<>> /\ (literals # <<>> \/ tables = <<>>)
    IN  (IF header THEN <<"[">> \o name \o <<"]", "\n">> ELSE <<>>)
            \o format_literal_lines(literals)
            \o gen_sub_tables(tables, name, header \/ literals # <<>>)

gen_sub_tables(tables, name, yielded) ==
    IF tables = <<>> THEN <<>>
    ELSE LET key == Head(tables)[1]
             display_name == IF name # <<>>
                             THEN name \o <<".">> \o format_key_part(key)
                             ELSE format_key_part(key)
         IN  (IF yielded THEN <<"\n">> ELSE <<>>)
                 \o gen_table_chunks(Head(tables)[2].v, display_name)
                 \o gen_sub_tables(Tail(tables), name, TRUE)

tomli_w_dumps(doc) ==
    IF Serializable(doc)
    THEN [exc |-> "None", text |-> gen_table_chunks(doc.v, <<>>)]
    ELSE [exc |-> "TypeError", text |-> <<>>]

(***************************************************************************)
(* tomli.loads, as the tests use it to read a written file back: the text  *)
(* as a document, for the TOML that tomli_w writes (tables of one level,   *)
(* strings, lists one item a line, inline tables of strings).  Any other   *)
(* text is a TOMLDecodeError.  A document keeps the order of the text.     *)
(***************************************************************************)
\* The items between the braces of an inline table are well formed from j on.
RECURSIVE inline_ok(_, _)
inline_ok(tokens, j) ==
    /\ j + 4 <= Len(tokens)
    /\ tokens[j + 1] = " = " /\ tokens[j + 2] = "\"" /\ tokens[j + 4] = "\""
    /\ \/ j + 4 = Len(tokens)
       \/ /\ j + 5 < Len(tokens)
          /\ tokens[j + 5] = ", "
          /\ inline_ok(tokens, j + 6)

RECURSIVE inline_items(_, _)
inline_items(tokens, j) ==
    IF j > Len(tokens) THEN <<>>
    ELSE << <<tokens[j], Str(tokens[j + 3])>> >> \o inline_items(tokens, j + 6)

\* The value a literal stands for; None when it is no literal.
parse_value(tokens) ==
    LET n == Len(tokens)
    IN  CASE tokens = <<"[]">> -> List(<<>>)
          [] tokens = <<"{}">> -> Dict(<<>>)
          [] n = 3 /\ tokens[1] = "\"" /\ tokens[3] = "\"" -> Str(tokens[2])
          [] n >= 3 /\ tokens[1] = "{ " /\ tokens[n] = " }"
                /\ inline_ok(SubSeq(tokens, 2, n - 1), 1)
                -> Dict(inline_items(SubSeq(tokens, 2, n - 1), 1))
          [] OTHER -> PyNone

\* The tables read so far with the table being read added to them.
flush_table(acc) ==
    IF acc.table = "" THEN acc.done \o acc.pairs
    ELSE Append(acc.done, <<acc.table, Dict(acc.pairs)>>)

\* One line read: acc holds the finished tables, the name and the pairs of
\* the table being read, and the key and the items of a list being read.
parse_line(acc, line) ==
    LET body == IF line[Len(line)] = "\n" THEN SubSeq(line, 1, Len(line) - 1) ELSE line
        n == Len(body)
        failed == [acc EXCEPT !.ok = FALSE]
    IN  IF body = <<>> THEN acc
        ELSE IF acc.key # ""
        THEN IF body = <<"]">>
             THEN [acc EXCEPT !.pairs = Append(acc.pairs, <<acc.key, List(acc.items)>>),
                              !.key = "", !.items = <<>>]
             ELSE IF n >= 3 /\ body[1] = "    " /\ body[n] = ","
                        /\ parse_value(SubSeq(body, 2, n - 1)) # PyNone
             THEN [acc EXCEPT !.items = Append(acc.items, parse_value(SubSeq(body, 2, n - 1)))]
             ELSE failed
        ELSE IF \/ n = 3 /\ body[1] = "[" /\ body[3] = "]"
                \/ n = 5 /\ body[1] = "[" /\ body[2] = "\"" /\ body[4] = "\"" /\ body[5] = "]"
        THEN LET name == body[(n + 1) \div 2]
             IN  IF \E i \in 1..Len(flush_table(acc)) : flush_table(acc)[i][1] = name
                 THEN failed
                 ELSE [acc EXCEPT !.done = flush_table(acc), !.table = name,
                                  !.pairs = <<>>]
        ELSE IF n >= 3 /\ body[2] = " = "
        THEN IF \E i \in 1..Len(acc.pairs) : acc.pairs[i][1] = body[1]
             THEN failed
             ELSE IF SubSeq(body, 3, n) = <<"[">>
             THEN [acc EXCEPT !.key = body[1]]
             ELSE IF parse_value(SubSeq(body, 3, n)) # PyNone
             THEN [acc EXCEPT !.pairs = Append(acc.pairs,
                                               <<body[1], parse_value(SubSeq(body, 3, n))>>)]
             ELSE failed
        ELSE failed

RECURSIVE parse_lines(_, _)
parse_lines(acc, lines) ==
    IF lines = <<>> \/ ~acc.ok THEN acc
    ELSE parse_lines(parse_line(acc, Head(lines)), Tail(lines))

tomli_loads(text) ==
    LET acc == parse_lines([done |-> <<>>, table |-> "", pairs |-> <<>>,
                            key |-> "", items |-> <<>>, ok |-> TRUE],
                           ReadLines(text))
    IN  IF acc.ok /\ acc.key = ""
        THEN [exc |-> "None", value |-> Dict(flush_table(acc))]
        ELSE [exc |-> "TOMLDecodeError", value |-> PyNone]

\* d[key], None when the dict has no such key (dict.get).
RECURSIVE Get(_, _)
Get(d, key) ==
    IF d.t # "dict" \/ d.v = <<>> THEN PyNone
    ELSE IF Head(d.v)[1] = key THEN Head(d.v)[2]
    ELSE Get(Dict(Tail(d.v)), key)

Keys(d) == IF d.t # "dict" THEN {} ELSE {d.v[i][1] : i \in 1..Len(d.v)}

(***************************************************************************)
(* The configuration functions.                                            *)
(***************************************************************************)
default_description == Str("This project has been created with pystrap.")

setup_py_contents ==
    <<"from setuptools import setup", "\n", "\n",
      "if __name__ == '__main__':", "\n", "    setup()">>

\* The record write_configuration_to_files passes on as it is.
pyprojcect_contents_as_given(p, author, description) ==
    get_project_metadata(p, description, author)

\* if not description: description = "This project ..."
\* pyprojcect_contents = get_project_metadata(project_name, author=author,
\*                                            description=description)
pyprojcect_contents(p, author, description) ==
    get_project_metadata(p, IF ~Truthy(description) THEN default_description
                            ELSE description, author)

\* pystrap.config_writers.write_configuration_to_files: the arguments of a
\* call are evaluated before the call is made.
cw_write_configuration_to_files(f, p, distributable, author, description) ==
    LET dumped == tomli_w_dumps(pyprojcect_contents(p, author, description))
        pyproject ==
            IF dumped.exc # "None" THEN Raise(f, dumped.exc, 0)
            ELSE Bind(f, io_write_contents_to_file_params, 3,
                      io_write_contents_to_file(f, PathArg(Pyproject), dumped.text))
        setup ==
            IF pyproject.exc # "None" \/ ~distributable THEN pyproject
            ELSE After(pyproject,
                       Bind(pyproject.fs, io_write_contents_to_file_params, 3,
                            io_write_contents_to_file(pyproject.fs, PathArg(SetupPy),
                                                      setup_py_contents)))
    IN  IF setup.exc # "None" THEN setup ELSE Return(setup.fs, setup.warnings)

\* pystrap.main.write_configuration_to_files
main_write_configuration_to_files(f, p, distributable, author, description) ==
    LET dumped == tomli_w_dumps(pyprojcect_contents(p, author, description))
        pyproject ==
            IF dumped.exc # "None" THEN Raise(f, dumped.exc, 0)
            ELSE Bind(f, main_write_contents_to_file_params, 3,
                      main_write_contents_to_file(f, PathArg(Pyproject), dumped.text))
        setup ==
            IF pyproject.exc # "None" \/ ~distributable THEN pyproject
            ELSE After(pyproject,
                       Bind(pyproject.fs, main_write_contents_to_file_params, 3,
                            main_write_contents_to_file(pyproject.fs, PathArg(SetupPy),
                                                        setup_py_contents)))
    IN  IF setup.exc # "None" THEN setup ELSE Return(setup.fs, setup.warnings)

\* try: create_file(file_name, logger)
\* except FileExistsError: logger.warning(...)
cw_try_create_file(f, file_name) ==
    LET created == Bind(f, io_create_file_params, 2, io_create_file(f, file_name))
    IN  IF created.exc = "FileExistsError"
        THEN [fs |-> created.fs, ret |-> "None", exc |-> "None", warnings |-> 1,
              trace |-> created.trace]
        ELSE created

\* author.to_list()
to_list(author) ==
    IF author.t = "Author"
    THEN [exc |-> "None", value |-> List(<<author.name, author.email>>)]
    ELSE [exc |-> "AttributeError", value |-> PyNone]

cw_create_pyprojecttoml_file(f, p, author, file_name) ==
    LET created == cw_try_create_file(f, file_name)
        listed == to_list(author)
        section_project == Dict(<< <<"name", Str(p)>>,
                                   <<"version", Str("0.0.1")>>,
                                   <<"authors", listed.value>>,
                                   <<"maintainers", listed.value>>,
                                   <<"requires-python", Str(">=3.10")>> >>)
        section_buildsytem == Dict(<< <<"requires", List(<<Str("setuptools>=42"),
                                                           Str("wheel")>>)>>,
                                      <<"build-backend", Str("setuptools.build_meta")>> >>)
        project_metadata == Dict(<< <<"project", section_project>>,
                                    <<"build-system", section_buildsytem>> >>)
        dumped == tomli_w_dumps(project_metadata)
        written ==
            IF created.exc # "None" THEN created
            ELSE IF listed.exc # "None" THEN Raise(created.fs, listed.exc, created.warnings)
            ELSE IF dumped.exc # "None" THEN Raise(created.fs, dumped.exc, created.warnings)
            ELSE After(created,
                       Bind(created.fs, io_write_contents_to_file_params, 3,
                            io_write_contents_to_file(created.fs, file_name, dumped.text)))
    IN  IF written.exc # "None" THEN written ELSE Return(written.fs, written.warnings)

cw_create_setuppy_file(f, file_name) ==
    LET created == cw_try_create_file(f, file_name)
        written ==
            IF created.exc # "None" THEN created
            ELSE After(created,
                       Bind(created.fs, io_write_contents_to_file_params, 3,
                            io_write_contents_to_file(created.fs, PathArg(file_name.path),
                                                      setup_py_contents)))
    IN  IF written.exc # "None" THEN written ELSE Return(written.fs, written.warnings)

(***************************************************************************)
(* State: the project name of the run, the working directory, the last     *)
(* call made (its inputs, what was at its path before it, its outcome) and *)
(* the outcomes of the layout / configuration calls made so far.           *)
(***************************************************************************)
NoCall ==
    [op |-> "none", mod |-> "none", path |-> <<>>, contents |-> <<>>,
     nargs |-> 0, pre |-> Absent, ret |-> "None", exc |-> "None", warnings |-> 0]

Called(op, mod, path, contents, nargs, pre, r) ==
    [op |-> op, mod |-> mod, path |-> path, contents |-> contents,
     nargs |-> nargs, pre |-> pre, ret |-> r.ret, exc |-> r.exc,
     warnings |-> r.warnings]

InitPathOps ==
    /\ project_name \in ProjectNames
    /\ fs \in {f \in [PathOpsUniverse(project_name) -> AnyEntry] : Consistent(f)}
    /\ last = NoCall
    /\ runs = <<>>

\* A direct caller passes a pathlib.Path (and the contents), and may pass a
\* logger after them as the tests do.
IoCreateFolder ==
    \E path \in DOMAIN fs, logger \in {0, 1} :
        LET nargs == 1 + logger
            r == Bind(fs, io_create_folder_params, nargs, io_create_folder(fs, PathArg(path)))
        IN  /\ fs' = r.fs
            /\ last' = Called("create_folder", "io_operations", path, <<>>, nargs, fs[path], r)
            /\ UNCHANGED <<project_name, runs>>

IoCreateFile ==
    \E path \in DOMAIN fs, logger \in {0, 1} :
        LET nargs == 1 + logger
            r == Bind(fs, io_create_file_params, nargs, io_create_file(fs, PathArg(path)))
        IN  /\ fs' = r.fs
            /\ last' = Called("create_file", "io_operations", path, <<>>, nargs, fs[path], r)
            /\ UNCHANGED <<project_name, runs>>

IoWriteContentsToFile ==
    \E path \in DOMAIN fs, contents \in Contents, logger \in {0, 1} :
        LET nargs == 2 + logger
            r == Bind(fs, io_write_contents_to_file_params, nargs,
                      io_write_contents_to_file(fs, PathArg(path), contents))
        IN  /\ fs' = r.fs
            /\ last' = Called("write_contents_to_file", "io_operations", path, contents,
                              nargs, fs[path], r)
            /\ UNCHANGED <<project_name, runs>>

MainCreateFolder ==
    \E path \in DOMAIN fs, logger \in {0, 1} :
        LET nargs == 1 + logger
            r == Bind(fs, main_create_folder_params, nargs, main_create_folder(fs, PathArg(path)))
        IN  /\ fs' = r.fs
            /\ last' = Called("create_folder", "main", path, <<>>, nargs, fs[path], r)
            /\ UNCHANGED <<project_name, runs>>

MainCreateFile ==
    \E path \in DOMAIN fs, logger \in {0, 1} :
        LET nargs == 1 + logger
            r == Bind(fs, main_create_file_params, nargs, main_create_file(fs, PathArg(path)))
        IN  /\ fs' = r.fs
            /\ last' = Called("create_file", "main", path, <<>>, nargs, fs[path], r)
            /\ UNCHANGED <<project_name, runs>>

MainWriteContentsToFile ==
    \E path \in DOMAIN fs, contents \in Contents, logger \in {0, 1} :
        LET nargs == 2 + logger
            r == Bind(fs, main_write_contents_to_file_params, nargs,
                      main_write_contents_to_file(fs, PathArg(path), contents))
        IN  /\ fs' = r.fs
            /\ last' = Called("write_contents_to_file", "main", path, contents,
                              nargs, fs[path], r)
            /\ UNCHANGED <<project_name, runs>>

NextPathOps ==
    \/ IoCreateFolder
    \/ IoCreateFile
    \/ IoWriteContentsToFile
    \/ MainCreateFolder
    \/ MainCreateFile
    \/ MainWriteContentsToFile

SpecPathOps == InitPathOps /\ [][NextPathOps]_vars

TypeOK ==
    /\ project_name \in ProjectNames
    /\ Consistent(fs)
    /\ last.exc \in {"None", "TypeError", "FileExistsError", "AttributeError",
                     "FileNotFoundError", "IsADirectoryError", "NotADirectoryError"}

(***************************************************************************)
(* Properties of the primitives (SpecPathOps).                             *)
(***************************************************************************)
\* The number of positional arguments the called function declares.
Params(mod, op) ==
    IF mod = "io_operations"
    THEN CASE op = "create_folder" -> io_create_folder_params
           [] op = "create_file" -> io_create_file_params
           [] OTHER -> io_write_contents_to_file_params
    ELSE CASE op = "create_folder" -> main_create_folder_params
           [] op = "create_file" -> main_create_file_params
           [] OTHER -> main_write_contents_to_file_params

\* The last call passed exactly the arguments its function declares.
Declared(l) == l.nargs = Params(l.mod, l.op)

IsWrite(l) == l.op = "write_contents_to_file"

IsCreate(l) == l.op \in {"create_file", "create_folder"}

NonEmptyFile(e) == e.kind = "file" /\ Len(e.data) >= 1

\* Every directory along the path exists.
AllDirs(f, path) == \A i \in 1..Len(path) : f[SubSeq(path, 1, i)] = Dir

\* C1: a file that holds at least one character before a call of
\* write_contents_to_file (of pystrap.io_operations or of pystrap.main, with
\* any contents) has the same content after the call.
C1_NeverOverwriteNonEmpty ==
    (IsWrite(last) /\ NonEmptyFile(last.pre)) => fs[last.path] = last.pre

C1_Witness ==
    /\ IsWrite(last) /\ last.mod = "io_operations" /\ Declared(last)
    /\ NonEmptyFile(last.pre)
    /\ last.contents # <<>> /\ last.contents # last.pre.data
    /\ fs[last.path] = last.pre

\* C2: write_contents_to_file called on an existing empty file returns True
\* and leaves the file holding exactly the contents passed.
C2_WriteToEmptyFile ==
    (IsWrite(last) /\ Declared(last) /\ last.pre = File(<<>>))
        => /\ last.ret = "True" /\ last.exc = "None"
           /\ fs[last.path] = File(last.contents)

C2_Witness ==
    /\ IsWrite(last) /\ last.mod = "io_operations" /\ Declared(last)
    /\ last.pre = File(<<>>)
    /\ last.contents # <<>>
    /\ fs[last.path] = File(last.contents)

\* C3: write_contents_to_file of pystrap.io_operations called on a non-empty
\* file does not return True: FileNotEmptyException reaches the caller.
C3_SignalsFileNotEmptyException ==
    (IsWrite(last) /\ last.mod = "io_operations" /\ Declared(last)
        /\ NonEmptyFile(last.pre))
        => last.ret # "True" /\ last.exc = "FileNotEmptyException"

\* C4: write_contents_to_file(path, contents, logger) called on a non-empty
\* file returns True, no exception reaches the caller, and the file keeps
\* its content.
C4_NonEmptyReturnsTrue ==
    (IsWrite(last) /\ last.nargs = 3 /\ NonEmptyFile(last.pre))
        => /\ last.ret = "True" /\ last.exc = "None"
           /\ fs[last.path] = last.pre

\* C5: create_file called on a path where nothing exists returns True and an
\* empty file is there afterwards; create_folder called on such a path returns
\* True and the directory and all its parents are there afterwards.
C5_CreatesWhatIsMissing ==
    (IsCreate(last) /\ last.mod = "io_operations" /\ Declared(last)
        /\ last.pre = Absent)
        => /\ last.ret = "True" /\ last.exc = "None"
           /\ (last.op = "create_file" => fs[last.path] = File(<<>>))
           /\ (last.op = "create_folder" => AllDirs(fs, last.path))

C7_ExistingPathReturnsTrue ==
    (/\ Declared(last) \/ last.nargs = 2
     /\ \/ last.op = "create_file" /\ last.pre.kind = "file"
        \/ last.op = "create_folder" /\ last.pre.kind = "dir")
        => last.ret = "True" /\ last.exc = "None"

\* C19: write_contents_to_file of pystrap.io_operations, called on an empty
\* file with contents of at least one character (all the Config Writer
\* passes), leaves the file holding characters when it succeeds; called on a
\* file that holds characters it changes nothing, logs a warning and lets no
\* exception reach the caller.
C19_PopulatedIsFinal ==
    (IsWrite(last) /\ last.mod = "io_operations" /\ Declared(last))
        => /\ (last.pre = File(<<>>) /\ last.exc = "None" /\ last.contents # <<>>)
                => NonEmptyFile(fs[last.path])
           /\ NonEmptyFile(last.pre)
                => /\ fs[last.path] = last.pre
                   /\ last.warnings >= 1
                   /\ last.exc = "None"

(***************************************************************************)
(* The layout step (SpecLayout): create_project_structure called up to     *)
(* MaxRuns times in succession with the same arguments, in a working       *)
(* directory that holds any part of the project already.                   *)
(***************************************************************************)
ProjectUniverse(p) ==
    {SrcDir, PackageDir(p), PackageInit(p), TestsDir, TestsInit, Pyproject, SetupPy}

DirPaths(p) == {SrcDir, PackageDir(p), TestsDir}

FilePaths(p) == ProjectUniverse(p) \ DirPaths(p)

\* A directory of the project is missing or a directory; a file of the project
\* is missing or a regular file with any content.
ProjectDirectories(p) ==
    {f \in {d @@ c : d \in [DirPaths(p) -> {Absent, Dir}],
                     c \in [FilePaths(p) -> {Absent} \cup {File(x) : x \in Contents}]} :
        Consistent(f)}

Existing(f) == {q \in DOMAIN f : Exists(f, q)}

\* What is kept of a layout or configuration call.
Ran(op, mod, args, before, r) ==
    [op |-> op, mod |-> mod, args |-> args,
     before |-> before, after |-> r.fs,
     ret |-> r.ret, exc |-> r.exc, warnings |-> r.warnings, trace |-> r.trace]

InitProject ==
    /\ project_name \in ProjectNames
    /\ fs \in ProjectDirectories(project_name)
    /\ last = NoCall
    /\ runs = <<>>

\* The arguments of a call, beside the project name.
Args(distributable, author, description, file_name) ==
    [distributable |-> distributable, author |-> author,
     description |-> description, file_name |-> file_name]

LayoutArgs(distributable) == Args(distributable, PyNone, PyNone, PyNone)

\* The next call repeats the first one: same function, same arguments.
Repeats(op, mod, args) ==
    /\ Len(runs) < MaxRuns
    /\ runs # <<>> =>
        /\ runs[1].op = op
        /\ runs[1].mod = mod
        /\ runs[1].args = args

CwCreateProjectStructure ==
    \E distributable \in BOOLEAN :
        LET r == cw_create_project_structure(fs, project_name, distributable)
        IN  /\ Repeats("create_project_structure", "config_writers", LayoutArgs(distributable))
            /\ fs' = r.fs
            /\ last' = Called("create_project_structure", "config_writers", <<>>, <<>>,
                              3, Absent, r)
            /\ runs' = Append(runs, Ran("create_project_structure", "config_writers",
                                        LayoutArgs(distributable), fs, r))
            /\ UNCHANGED project_name

MainCreateProjectStructure ==
    \E distributable \in BOOLEAN :
        LET r == main_create_project_structure(fs, project_name, distributable)
        IN  /\ Repeats("create_project_structure", "main", LayoutArgs(distributable))
            /\ fs' = r.fs
            /\ last' = Called("create_project_structure", "main", <<>>, <<>>,
                              3, Absent, r)
            /\ runs' = Append(runs, Ran("create_project_structure", "main",
                                        LayoutArgs(distributable), fs, r))
            /\ UNCHANGED project_name

NextLayout ==
    \/ CwCreateProjectStructure
    \/ MainCreateProjectStructure

SpecLayout == InitProject /\ [][NextLayout]_vars

\* The paths create_project_structure is to create.
Manifest(p, distributable) ==
    {PackageDir(p), TestsDir, Pyproject, TestsInit, PackageInit(p)}
        \cup (IF distributable THEN {SetupPy} ELSE {})

IsLayout(run) == run.op = "create_project_structure"

\* C8: create_project_structure called twice in succession, the first time in
\* a clean directory, leaves after the second call the files and directories
\* the first call left, and the second call ends without an error, with
\* warnings for the paths that exist already.
C8_LayoutIdempotent ==
    (Len(runs) >= 2 /\ IsLayout(runs[1]) /\ Existing(runs[1].before) = {})
        => /\ Existing(runs[2].after) = Existing(runs[1].after)
           /\ runs[2].exc = "None" /\ runs[2].ret = "True"
           /\ runs[2].warnings >= 1

\* C9: create_project_structure called in a directory where any of the paths
\* of its manifest exist logs one warning for each of them, returns True with
\* no exception reaching the caller, and afterwards every path of the
\* manifest exists.
C9_LayoutOnPartialProject ==
    (Len(runs) >= 1 /\ IsLayout(runs[1]))
        => LET manifest == Manifest(project_name, runs[1].args.distributable)
           IN  /\ runs[1].exc = "None" /\ runs[1].ret = "True"
               /\ runs[1].warnings = Cardinality(manifest \cap Existing(runs[1].before))
               /\ manifest \subseteq Existing(runs[1].after)

\* C20: create_project_structure makes its calls in a fixed order: the
\* package directory, the tests directory, pyproject.toml, setup.py when the
\* project is distributable, the marker of the tests, the marker of the
\* package.  A call that ends with an exception has made a prefix of them.
C20_CreationOrder ==
    \A i \in 1..Len(runs) :
        IsLayout(runs[i]) =>
            LET order == << <<"create_folder", PackageDir(project_name)>>,
                            <<"create_folder", TestsDir>>,
                            <<"create_file", Pyproject>> >>
                         \o (IF runs[i].args.distributable
                             THEN << <<"create_file", SetupPy>> >> ELSE <<>>)
                         \o << <<"create_file", TestsInit>>,
                               <<"create_file", PackageInit(project_name)>> >>
                made == [j \in 1..Len(runs[i].trace) |->
                            <<runs[i].trace[j].op, runs[i].trace[j].path>>]
            IN  /\ Len(made) <= Len(order)
                /\ made = SubSeq(order, 1, Len(made))
                /\ runs[i].exc = "None" => made = order

C20_Witness ==
    /\ Len(runs) >= 1 /\ IsLayout(runs[1]) /\ runs[1].mod = "main"
    /\ runs[1].args.distributable /\ runs[1].exc = "None"
    /\ Existing(runs[1].before) = {}
    /\ Len(runs[1].trace) = 6

\* C26: in every call of create_project_structure, from a clean directory
\* or from any part of the project, the parent directory of tests/__init__.py
\* and of src/<p>/__init__.py exists at the moment create_file is called for
\* the file.
C26_ParentBeforeInitFile ==
    \A i \in 1..Len(runs) :
        IsLayout(runs[i]) =>
            \A j \in 1..Len(runs[i].trace) :
                runs[i].trace[j].path \in {TestsInit, PackageInit(project_name)}
                    => runs[i].trace[j].parent

C26_Witness ==
    /\ Len(runs) >= 1 /\ IsLayout(runs[1]) /\ runs[1].mod = "main"
    /\ runs[1].before[SrcDir] = Absent /\ runs[1].before[TestsDir] = Dir
    /\ \E j \in 1..Len(runs[1].trace) :
            /\ runs[1].trace[j].path = PackageInit(project_name)
            /\ runs[1].trace[j].parent
            /\ runs[1].trace[j].exc = "None"
    /\ runs[1].after[PackageInit(project_name)] = File(<<>>)

(***************************************************************************)
(* The configuration step (SpecConfig): one of the configuration functions *)
(* called up to MaxRuns times in succession with the same arguments.  The  *)
(* functions read and write pyproject.toml and setup.py only, so the rest  *)
(* of the project is either all missing or all laid out.                   *)
(***************************************************************************)
Authors ==
    {PyNone,
     AuthorOf(Str("Max Mustermann"), Str("max@example.com")),
     AuthorOf(Str("Max Mustermann"), PyNone),
     AuthorOf(PyNone, Str("max@example.com")),
     AuthorOf(PyNone, PyNone)}

Descriptions ==
    {PyNone, Str(""), Str("A demo project"),
     Str("This project has been created with pystrap.")}

\* What is kept of a call of write_configuration_to_files: the call, and the
\* record it built.
RanConfiguration(mod, args, before, r) ==
    Ran("write_configuration_to_files", mod, args, before, r)
        @@ [built |-> pyprojcect_contents(project_name, args.author, args.description)]

InitConfig ==
    /\ InitProject
    /\ \/ \A q \in DOMAIN fs \ {Pyproject, SetupPy} : fs[q] = Absent
       \/ \A q \in DOMAIN fs \ {Pyproject, SetupPy} :
              fs[q] = (IF q \in DirPaths(project_name) THEN Dir ELSE File(<<>>))

CwWriteConfigurationToFiles ==
    \E distributable \in BOOLEAN, author \in Authors, description \in Descriptions :
        LET args == Args(distributable, author, description, PyNone)
            r == cw_write_configuration_to_files(fs, project_name, distributable,
                                                 author, description)
        IN  /\ Repeats("write_configuration_to_files", "config_writers", args)
            /\ fs' = r.fs
            /\ last' = Called("write_configuration_to_files", "config_writers", <<>>,
                              <<>>, 5, Absent, r)
            /\ runs' = Append(runs, RanConfiguration("config_writers", args, fs, r))
            /\ UNCHANGED project_name

MainWriteConfigurationToFiles ==
    \E distributable \in BOOLEAN, author \in Authors, description \in Descriptions :
        LET args == Args(distributable, author, description, PyNone)
            r == main_write_configuration_to_files(fs, project_name, distributable,
                                                   author, description)
        IN  /\ Repeats("write_configuration_to_files", "main", args)
            /\ fs' = r.fs
            /\ last' = Called("write_configuration_to_files", "main", <<>>,
                              <<>>, 5, Absent, r)
            /\ runs' = Append(runs, RanConfiguration("main", args, fs, r))
            /\ UNCHANGED project_name

\* file_name is the default str or, as in the tests, a pathlib.Path.
CwCreatePyprojecttomlFile ==
    \E author \in Authors, file_name \in {StrArg(Pyproject), PathArg(Pyproject)} :
        LET args == Args(FALSE, author, PyNone, file_name)
            r == cw_create_pyprojecttoml_file(fs, project_name, author, file_name)
        IN  /\ Repeats("create_pyprojecttoml_file", "config_writers", args)
            /\ fs' = r.fs
            /\ last' = Called("create_pyprojecttoml_file", "config_writers", Pyproject,
                              <<>>, 4, fs[Pyproject], r)
            /\ runs' = Append(runs, Ran("create_pyprojecttoml_file",
                                        "config_writers", args, fs, r))
            /\ UNCHANGED project_name

CwCreateSetuppyFile ==
    \E file_name \in {StrArg(SetupPy), PathArg(SetupPy)} :
        LET args == Args(TRUE, PyNone, PyNone, file_name)
            r == cw_create_setuppy_file(fs, file_name)
        IN  /\ Repeats("create_setuppy_file", "config_writers", args)
            /\ fs' = r.fs
            /\ last' = Called("create_setuppy_file", "config_writers", SetupPy,
                              <<>>, 2, fs[SetupPy], r)
            /\ runs' = Append(runs, Ran("create_setuppy_file",
                                        "config_writers", args, fs, r))
            /\ UNCHANGED project_name

NextConfig ==
    \/ CwWriteConfigurationToFiles
    \/ MainWriteConfigurationToFiles
    \/ CwCreatePyprojecttomlFile
    \/ CwCreateSetuppyFile

SpecConfig == InitConfig /\ [][NextConfig]_vars

\* The files a configuration call is to fill.
Targets(run) ==
    CASE run.op = "create_setuppy_file" -> {SetupPy}
      [] run.op = "create_pyprojecttoml_file" -> {Pyproject}
      [] OTHER -> {Pyproject} \cup (IF run.args.distributable THEN {SetupPy} ELSE {})

IsConfig(run) ==
    run.op \in {"write_configuration_to_files", "create_pyprojecttoml_file",
                "create_setuppy_file"}

\* C10: a configuration function of pystrap.config_writers called when the
\* files it is to fill all hold content leaves their content as it was, logs
\* a warning, and returns True with no exception reaching the caller.
C10_PopulatedTargetsSkipped ==
    \A i \in 1..Len(runs) :
        (/\ IsConfig(runs[i]) /\ runs[i].mod = "config_writers"
         /\ \A q \in Targets(runs[i]) : NonEmptyFile(runs[i].before[q]))
            => /\ \A q \in Targets(runs[i]) : runs[i].after[q] = runs[i].before[q]
               /\ runs[i].warnings >= 1
               /\ runs[i].ret = "True" /\ runs[i].exc = "None"

\* C25: write_configuration_to_files, of either module, changes the content
\* of no path but pyproject.toml and, when distributable, setup.py; no path
\* exists after the call that did not exist before it, none is gone, and
\* with distributable false an existing setup.py is as it was.
C25_ConfigurationFrame ==
    \A i \in 1..Len(runs) :
        runs[i].op = "write_configuration_to_files"
            => /\ \A q \in DOMAIN runs[i].before :
                    /\ runs[i].after[q].kind = runs[i].before[q].kind
                    /\ (q # Pyproject /\ (q # SetupPy \/ ~runs[i].args.distributable))
                            => runs[i].after[q] = runs[i].before[q]

C25_Witness ==
    /\ Len(runs) >= 1 /\ runs[1].op = "write_configuration_to_files"
    /\ runs[1].mod = "main" /\ ~runs[1].args.distributable
    /\ runs[1].before[Pyproject] = File(<<>>)
    /\ runs[1].before[SetupPy] = File(<<>>)
    /\ NonEmptyFile(runs[1].after[Pyproject])
    /\ runs[1].after[SetupPy] = File(<<>>)
    /\ runs[1].exc = "None"

\* C16: create_pyprojecttoml_file(p, author, logger, file) called when the
\* file does not exist returns True, the file exists afterwards, and reading
\* the file back with tomli.loads gives the record
\* {project: {name: p, version: "0.0.1", authors: author.to_list(),
\* maintainers: author.to_list(), requires-python: ">=3.10"},
\* build-system: {requires: ["setuptools>=42", "wheel"],
\* build-backend: "setuptools.build_meta"}}.
C16_PyprojectRoundTrip ==
    \A i \in 1..Len(runs) :
        (/\ runs[i].op = "create_pyprojecttoml_file"
         /\ runs[i].before[Pyproject] = Absent
         /\ runs[i].args.author.t = "Author"
         /\ runs[i].args.author.name.t = "str" /\ runs[i].args.author.email.t = "str")
            => LET a == runs[i].args.author
                   listed == List(<<a.name, a.email>>)
                   expected ==
                       Dict(<< <<"project",
                                 Dict(<< <<"name", Str(project_name)>>,
                                         <<"version", Str("0.0.1")>>,
                                         <<"authors", listed>>,
                                         <<"maintainers", listed>>,
                                         <<"requires-python", Str(">=3.10")>> >>)>>,
                               <<"build-system",
                                 Dict(<< <<"requires", List(<<Str("setuptools>=42"),
                                                              Str("wheel")>>)>>,
                                         <<"build-backend",
                                           Str("setuptools.build_meta")>> >>)>> >>)
               IN  /\ runs[i].ret = "True" /\ runs[i].exc = "None"
                   /\ runs[i].after[Pyproject].kind = "file"
                   /\ tomli_loads(runs[i].after[Pyproject].data)
                        = [exc |-> "None", value |-> expected]

(***************************************************************************)
(* The metadata record (SpecMetadata): built by a call of                  *)
(* get_project_metadata, written as text by tomli_w.dumps and read back by *)
(* tomli.loads, or built inside write_configuration_to_files.              *)
(***************************************************************************)
\* What is kept of a call of a function that touches no file.
Pure(op, mod, args, out) ==
    [op |-> op, mod |-> mod, args |-> args, ret |-> out.value, exc |-> out.exc]

\* get_project_metadata(project_name, description, author), of either module;
\* an argument left out is None.
GetProjectMetadata ==
    \E mod \in {"config_writers", "main"}, author \in Authors,
       description \in Descriptions :
        /\ runs = <<>>
        /\ runs' = <<Pure("get_project_metadata", mod,
                          Args(FALSE, author, description, PyNone),
                          [exc |-> "None",
                           value |-> get_project_metadata(project_name, description,
                                                          author)])>>
        /\ UNCHANGED <<project_name, fs, last>>

\* get_build_system_config(), of either module.
GetBuildSystemConfig ==
    \E mod \in {"config_writers", "main"} :
        /\ runs = <<>>
        /\ runs' = <<Pure("get_build_system_config", mod,
                          Args(FALSE, PyNone, PyNone, PyNone),
                          [exc |-> "None", value |-> get_build_system_config])>>
        /\ UNCHANGED <<project_name, fs, last>>

\* tomli_w.dumps(record)
TomliWDumps ==
    /\ Len(runs) = 1
    /\ runs[1].op \in {"get_project_metadata", "get_build_system_config"}
    /\ LET dumped == tomli_w_dumps(runs[1].ret)
       IN  runs' = Append(runs, Pure("tomli_w.dumps", "tomli_w", runs[1].args,
                                     [exc |-> dumped.exc, value |-> dumped.text]))
    /\ UNCHANGED <<project_name, fs, last>>

\* tomli.loads(text)
TomliLoads ==
    /\ Len(runs) = 2 /\ runs[2].op = "tomli_w.dumps" /\ runs[2].exc = "None"
    /\ runs' = Append(runs, Pure("tomli.loads", "tomli", runs[1].args,
                                 tomli_loads(runs[2].ret)))
    /\ UNCHANGED <<project_name, fs, last>>

NextMetadata ==
    \/ GetProjectMetadata
    \/ GetBuildSystemConfig
    \/ TomliWDumps
    \/ TomliLoads
    \/ CwWriteConfigurationToFiles
    \/ MainWriteConfigurationToFiles

SpecMetadata == InitConfig /\ [][NextMetadata]_vars

IsMetadata(run) == run.op = "get_project_metadata"

\* The text tomli_w.dumps writes for a record reads back as that record.
RoundTrip ==
    (Len(runs) = 3 /\ runs[3].op = "tomli.loads")
        => runs[3].exc = "None" /\ runs[3].ret = runs[1].ret

\* C22: get_build_system_config returns a record whose only key is
\* build-system, the name of the table, with requires =
\* ["setuptools>=42", "wheel"] and build-backend = "setuptools.build_meta"
\* under it, and the text written for it holds the table build-system.
C22_BuildSystemKey ==
    \A i \in 1..Len(runs) :
        /\ runs[i].op = "get_build_system_config"
                => /\ Keys(runs[i].ret) = {"build-system"}
                   /\ Get(runs[i].ret, "build-system")
                        = Dict(<< <<"requires", List(<<Str("setuptools>=42"),
                                                       Str("wheel")>>)>>,
                                  <<"build-backend", Str("setuptools.build_meta")>> >>)
        /\ (runs[i].op = "tomli.loads" /\ runs[1].op = "get_build_system_config")
                => Keys(runs[i].ret) = {"build-system"}

\* C14: get_project_metadata(p) with no author and no description returns a
\* record whose project table has name p, version "0.0.1", authors
\* [{name: "", email: ""}] and requires-python ">=3.10".
C14_MetadataDefaults ==
    \A i \in 1..Len(runs) :
        (/\ IsMetadata(runs[i])
         /\ runs[i].args.author = PyNone /\ runs[i].args.description = PyNone)
            => LET project == Get(runs[i].ret, "project")
               IN  /\ Get(project, "name") = Str(project_name)
                   /\ Get(project, "version") = Str("0.0.1")
                   /\ Get(project, "authors")
                        = List(<<Dict(<< <<"name", Str("")>>, <<"email", Str("")>> >>)>>)
                   /\ Get(project, "requires-python") = Str(">=3.10")

C14_Witness ==
    /\ Len(runs) >= 1 /\ IsMetadata(runs[1]) /\ project_name = "foo"
    /\ runs[1].args.author = PyNone /\ runs[1].args.description = PyNone
    /\ runs[1].exc = "None"

\* C15: get_project_metadata(p, author=a) with an Author a returns a record
\* whose project.authors is [{name: a.name, email: a.email}] and whose
\* project.maintainers is the same list.
C15_MetadataAuthor ==
    \A i \in 1..Len(runs) :
        (IsMetadata(runs[i]) /\ runs[i].args.author.t = "Author")
            => LET project == Get(runs[i].ret, "project")
                   a == runs[i].args.author
               IN  /\ Get(project, "authors")
                        = List(<<Dict(<< <<"name", a.name>>, <<"email", a.email>> >>)>>)
                   /\ Get(project, "maintainers") = Get(project, "authors")

C15_Witness ==
    /\ Len(runs) >= 1 /\ IsMetadata(runs[1])
    /\ runs[1].args.author = AuthorOf(Str("Max Mustermann"), Str("max@example.com"))
    /\ Get(Get(runs[1].ret, "project"), "maintainers") # PyNone

CliAuthorNames == {PyNone, Str("Max Mustermann")}

CliAuthorEmails == {PyNone, Str("max@example.com")}

\* UI._auhtor_name after ask_author_name: what was typed, possibly nothing.
UiAuthorNames == {Str(""), Str("Max Mustermann")}

\* UI._auhtor_email after ask_author_email: None unless a valid address was
\* typed.
UiAuthorEmails == {PyNone, Str("max@example.com")}

\* UI.author
ui_author(name, email) ==
    AuthorOf(IF Truthy(name) THEN name ELSE Str("John Doe"),
             IF Truthy(email) THEN email ELSE Str("john.doe@example.com"))

Entries == {"run_console_script", "run_tui"}

\* main without --interactive: run_console_script up to the first call.
MainConsole ==
    \E name \in CliAuthorNames, email \in CliAuthorEmails, distributable \in BOOLEAN :
        /\ runs = <<>>
        /\ runs' = <<Ran("run_console_script", "main",
                         Args(distributable, AuthorOf(name, email), PyNone, PyNone),
                         fs, Start(fs))>>
        /\ UNCHANGED <<project_name, fs, last>>

\* main with --interactive: run_tui up to the first call.
MainTui ==
    \E name \in UiAuthorNames, email \in UiAuthorEmails, distributable \in BOOLEAN :
        /\ runs = <<>>
        /\ runs' = <<Ran("run_tui", "main",
                         Args(distributable, ui_author(name, email), PyNone, PyNone),
                         fs, Start(fs))>>
        /\ UNCHANGED <<project_name, fs, last>>

\* create_project_structure(project, logger): distributable is left at its
\* default, False.
RunCreateProjectStructure ==
    /\ Len(runs) = 1 /\ runs[1].op \in Entries
    /\ LET r == main_create_project_structure(fs, project_name, FALSE)
       IN  /\ fs' = r.fs
           /\ last' = Called("create_project_structure", "main", <<>>, <<>>, 2, Absent, r)
           /\ runs' = Append(runs, Ran("create_project_structure", "main",
                                       LayoutArgs(FALSE), fs, r))
    /\ UNCHANGED project_name

\* write_configuration_to_files(project, logger, author=author,
\*                              distributable=distributable)
RunWriteConfigurationToFiles ==
    /\ Len(runs) = 2 /\ runs[1].op \in Entries /\ runs[2].exc = "None"
    /\ LET args == Args(runs[1].args.distributable, runs[1].args.author, PyNone, PyNone)
           r == main_write_configuration_to_files(fs, project_name, args.distributable,
                                                  args.author, PyNone)
       IN  /\ fs' = r.fs
           /\ last' = Called("write_configuration_to_files", "main", <<>>, <<>>, 4,
                             Absent, r)
           /\ runs' = Append(runs, RanConfiguration("main", args, fs, r))
    /\ UNCHANGED project_name

NextRun ==
    \/ MainConsole
    \/ MainTui
    \/ RunCreateProjectStructure
    \/ RunWriteConfigurationToFiles

SpecRun == InitProject /\ [][NextRun]_vars

\* The run was started by the entry point.
IsRun == Len(runs) >= 1 /\ runs[1].op \in Entries

\* The run is over: both steps are done, or an exception has ended it.
RunEnded ==
    /\ IsRun
    /\ \/ Len(runs) = 3
       \/ Len(runs) = 2 /\ runs[2].exc # "None"

\* The run started in an empty working directory.
FreshRun == IsRun /\ Existing(runs[1].before) = {}

\* C11: a run with --distributable that starts in an empty working directory
\* ends with setup.py holding exactly the stub text.
C11_DistributableRun ==
    (RunEnded /\ FreshRun /\ runs[1].args.distributable)
        => fs[SetupPy] = File(<<"from setuptools import setup", "\n", "\n",
                                "if __name__ == '__main__':", "\n", "    setup()">>)

C13_BothTables ==
    (RunEnded /\ FreshRun)
        => LET document == tomli_loads(fs[Pyproject].data)
           IN  /\ fs[Pyproject].kind = "file"
               /\ document.exc = "None"
               /\ Keys(document.value) = {"project", "build-system"}
               /\ Keys(Get(document.value, "project"))
                    = {"name", "description", "version", "authors", "maintainers",
                       "requires-python"}
               /\ Get(document.value, "build-system")
                    = Dict(<< <<"requires", List(<<Str("setuptools>=42"), Str("wheel")>>)>>,
                              <<"build-backend", Str("setuptools.build_meta")>> >>)

\* C18: a run, whatever part of the project the working directory holds and
\* whatever its files hold, goes through both steps and each of them ends
\* without an exception: no state of a run is one where a step has raised.
C18_RunCompletes ==
    IsRun => \A i \in 2..Len(runs) : runs[i].exc = "None" /\ runs[i].ret = "True"

\* C21: in a run of run_console_script with neither --author-name nor
\* --author-email given, the record handed to tomli_w.dumps has
\* project.authors = [{name: "", email: ""}], both fields strings.
C21_NoAuthorEmptyStrings ==
    (/\ IsRun /\ runs[1].op = "run_console_script" /\ Len(runs) = 3
     /\ runs[1].args.author.name = PyNone /\ runs[1].args.author.email = PyNone)
        => Get(Get(runs[3].built, "project"), "authors")
                = List(<<Dict(<< <<"name", Str("")>>, <<"email", Str("")>> >>)>>)

(***************************************************************************)
(* The terminal interface (SpecUi): the UI of pystrap.system_core asked    *)
(* for the name and the e-mail address of the author as run_tui asks, and  *)
(* its author property read afterwards.  What is typed is a sequence of    *)
(* characters.                                                             *)
(***************************************************************************)
MaxEmailLen == 3

EmailChars == {"a", "@", "."}

EmailInputs == UNION {[1..n -> EmailChars] : n \in 0..MaxEmailLen}

NameInputs == {<<>>, <<"M">>}

\* A str as the sequence of its characters.
Text(chars) == [t |-> "str", v |-> chars]

\* s.split(sep): the pieces of s between the occurrences of sep.
RECURSIVE SplitFrom(_, _, _, _)
SplitFrom(s, sep, i, piece) ==
    IF i > Len(s) THEN <<piece>>
    ELSE IF s[i] = sep THEN <<piece>> \o SplitFrom(s, sep, i + 1, <<>>)
    ELSE SplitFrom(s, sep, i + 1, Append(piece, s[i]))

Split(s, sep) == SplitFrom(s, sep, 1, <<>>)

\* c in s
In(c, s) == \E i \in 1..Len(s) : s[i] = c

\* A check that looks for a "." anywhere after the first "@".
_validate_email_any_dot(email_to_validate) ==
    \E j, k \in 1..Len(email_to_validate) :
        j < k /\ email_to_validate[j] = "@" /\ email_to_validate[k] = "."

\* UI._validate_email
_validate_email(email_to_validate) ==
    IF ~In("@", email_to_validate) THEN FALSE
    ELSE IF ~In(".", Split(email_to_validate, "@")[2]) THEN FALSE
    ELSE TRUE

\* UI(): no name, no address.
NewUi == [_auhtor_name |-> PyNone, _auhtor_email |-> PyNone]

\* bool(v) of None or a str.
Filled(v) == v # PyNone /\ v.v # <<>>

DefaultAuthorName == Text(<<"John Doe">>)

DefaultAuthorEmail == Text(<<"john.doe", "@", "example", ".", "com">>)

\* UI.author of pystrap.system_core
UI_author(ui) ==
    AuthorOf(IF Filled(ui._auhtor_name) THEN ui._auhtor_name ELSE DefaultAuthorName,
             IF Filled(ui._auhtor_email) THEN ui._auhtor_email ELSE DefaultAuthorEmail)

\* UI.ask_author_email with user_input typed at the prompt.
ask_author_email(ui, user_input) ==
    IF user_input = <<>> THEN ui
    ELSE IF _validate_email(user_input)
    THEN [ui EXCEPT !._auhtor_email = Text(user_input)]
    ELSE ui

\* What is kept of a call on the UI: what was typed, the object after the
\* call, the value returned.
UiCall(op, input, ui, ret) ==
    [op |-> op, mod |-> "system_core", args |-> input, ui |-> ui, ret |-> ret,
     exc |-> "None"]

InitUi ==
    /\ project_name \in ProjectNames
    /\ fs = [q \in ProjectUniverse(project_name) |-> Absent]
    /\ last = NoCall
    /\ runs = <<>>

\* A call of _validate_email on its own.
UiValidateEmail ==
    \E input \in EmailInputs :
        /\ runs = <<>>
        /\ runs' = <<UiCall("_validate_email", input, NewUi, _validate_email(input))>>
        /\ UNCHANGED <<project_name, fs, last>>

\* terminal_client.ask_author_name(): whatever was typed is stored.
UiAskAuthorName ==
    \E input \in NameInputs :
        /\ runs = <<>>
        /\ runs' = <<UiCall("ask_author_name", input,
                            [NewUi EXCEPT !._auhtor_name = Text(input)], PyNone)>>
        /\ UNCHANGED <<project_name, fs, last>>

\* terminal_client.ask_author_email()
UiAskAuthorEmail ==
    \E input \in EmailInputs :
        /\ Len(runs) = 1 /\ runs[1].op = "ask_author_name"
        /\ runs' = Append(runs, UiCall("ask_author_email", input,
                                       ask_author_email(runs[1].ui, input), PyNone))
        /\ UNCHANGED <<project_name, fs, last>>

\* terminal_client.author
UiAuthor ==
    /\ Len(runs) = 2 /\ runs[2].op = "ask_author_email"
    /\ runs' = Append(runs, UiCall("author", <<>>, runs[2].ui, UI_author(runs[2].ui)))
    /\ UNCHANGED <<project_name, fs, last>>

NextUi ==
    \/ UiValidateEmail
    \/ UiAskAuthorName
    \/ UiAskAuthorEmail
    \/ UiAuthor

SpecUi == InitUi /\ [][NextUi]_vars

\* C23 as stated: _validate_email accepts a string exactly when it holds an
\* "@" and a "." somewhere after that "@"; ask_author_email stores exactly
\* the addresses accepted, and UI.author reports john.doe@example.com when
\* none was stored.
C23_AtThenAnyDot ==
    \A i \in 1..Len(runs) :
        LET s == runs[i].args
            accepted == \E j, k \in 1..Len(s) : j < k /\ s[j] = "@" /\ s[k] = "."
        IN  /\ runs[i].op = "_validate_email" => (runs[i].ret <=> accepted)
            /\ runs[i].op = "ask_author_email"
                    => ((runs[i].ui._auhtor_email = Text(s)) <=> accepted)
            /\ (runs[i].op = "author" /\ runs[i].ui._auhtor_email = PyNone)
                    => runs[i].ret.email = Text(<<"john.doe", "@", "example", ".", "com">>)

\* C23 amended: _validate_email accepts a string exactly when it holds an
\* "@" and a "." occurs between the first "@" and the next "@" (or the end
\* of the string when there is no second "@"); ask_author_email stores
\* exactly the addresses accepted, and UI.author reports
\* john.doe@example.com when none was stored.
C23_DotRightAfterFirstAt ==
    \A i \in 1..Len(runs) :
        LET s == runs[i].args
            accepted ==
                \E j, k \in 1..Len(s) :
                    /\ j < k /\ s[j] = "@" /\ s[k] = "."
                    /\ \A m \in 1..(k - 1) : m # j => s[m] # "@"
        IN  /\ runs[i].op = "_validate_email" => (runs[i].ret <=> accepted)
            /\ runs[i].op = "ask_author_email"
                    => ((runs[i].ui._auhtor_email = Text(s)) <=> accepted)
            /\ (runs[i].op = "author" /\ runs[i].ui._auhtor_email = PyNone)
                    => runs[i].ret.email = Text(<<"john.doe", "@", "example", ".", "com">>)

\* An address with two "@" and a "." after the second is typed, is not
\* stored, and the default is reported.
C23_Witness ==
    /\ Len(runs) = 3 /\ runs[3].op = "author"
    /\ runs[2].args = <<"@", "@", ".">>
    /\ runs[3].ui._auhtor_email = PyNone
    /\ runs[3].ret.email = DefaultAuthorEmail

(***************************************************************************)
(* Writes in succession (SpecWrites): up to MaxWrites calls of             *)
(* write_contents_to_file, of either module and with any contents, on a    *)
(* pyproject.toml that starts as an empty file.                            *)
(***************************************************************************)
MaxWrites == 3

InitWrites ==
    /\ project_name \in ProjectNames
    /\ fs = [q \in PathOpsUniverse(project_name) |->
                IF q = Pyproject THEN File(<<>>) ELSE Absent]
    /\ last = NoCall
    /\ runs = <<>>

\* What is kept of a call of write_contents_to_file.
RanWrite(mod, contents, nargs, before, r) ==
    Ran("write_contents_to_file", mod, [contents |-> contents, nargs |-> nargs],
        before, r)

IoWriteNext ==
    \E contents \in Contents, logger \in {0, 1} :
        LET nargs == 2 + logger
            r == Bind(fs, io_write_contents_to_file_params, nargs,
                      io_write_contents_to_file(fs, PathArg(Pyproject), contents))
        IN  /\ Len(runs) < MaxWrites
            /\ fs' = r.fs
            /\ last' = Called("write_contents_to_file", "io_operations", Pyproject,
                              contents, nargs, fs[Pyproject], r)
            /\ runs' = Append(runs, RanWrite("io_operations", contents, nargs, fs, r))
            /\ UNCHANGED project_name

MainWriteNext ==
    \E contents \in Contents, logger \in {0, 1} :
        LET nargs == 2 + logger
            r == Bind(fs, main_write_contents_to_file_params, nargs,
                      main_write_contents_to_file(fs, PathArg(Pyproject), contents))
        IN  /\ Len(runs) < MaxWrites
            /\ fs' = r.fs
            /\ last' = Called("write_contents_to_file", "main", Pyproject,
                              contents, nargs, fs[Pyproject], r)
            /\ runs' = Append(runs, RanWrite("main", contents, nargs, fs, r))
            /\ UNCHANGED project_name

NextWrites ==
    \/ IoWriteNext
    \/ MainWriteNext

SpecWrites == InitWrites /\ [][NextWrites]_vars

\* The calls so far that passed the arguments their function declares and
\* contents of at least one character.
Writers ==
    {i \in 1..Len(runs) :
        /\ runs[i].args.nargs = Params(runs[i].mod, "write_contents_to_file")
        /\ runs[i].args.contents # <<>>}

\* C24: after any sequence of calls of write_contents_to_file on a file that
\* starts empty, the file holds the contents of the first call that passed
\* contents of at least one character, and is still empty when there was no
\* such call.
C24_FirstWriterWins ==
    fs[Pyproject] =
        IF Writers = {} THEN File(<<>>)
        ELSE File(runs[CHOOSE i \in Writers : \A j \in Writers : i <= j].args.contents)

C24_Witness ==
    /\ Len(runs) = 3
    /\ runs[1].args.contents = <<>> /\ runs[1].exc = "None"
    /\ Writers = {2, 3}
    /\ runs[2].mod = "io_operations"
    /\ runs[3].args.contents # runs[2].args.contents
    /\ fs[Pyproject] = File(runs[2].args.contents)

====
